---- MODULE Spec2Model ----
(***************************************************************************)
(* KV-cache replacement policies (S3FIFO, S3FIFO_Attn, LFU, LFU_PRO,       *)
(* S3GDFS) over the capacity-bounded KVCacheStore.  Every access() call is *)
(* one atomic action; its loops are RECURSIVE operators over a record that *)
(* carries the policy object's fields.                                     *)
(***************************************************************************)
EXTENDS Integers, Sequences, FiniteSets, TLC

\* ---------------------------------------------------------------- bounds
MaxCap == 2
NumKeys == 3
MaxReqLen == 2
MaxGdfsReqLen == 1
MaxFreq == 4
MaxClock == 2
MaxVersion == 2
\* the capacity of the large S3GDFS run: the least with small_target = 2
LargeCap == 20

\* ------------------------------------------------------ program constants
FreqCap == 3
DefaultSmRatioPct == 10
AttnDefaultSmRatioPct == 5
SmallTargetDivisor == 10
MinSmallTarget == 1
BetaPos == 1

Keys == 1..NumKeys
\* the keys of the large S3GDFS run
LargeKeys == 1..(LargeCap + 1)
AllKeys == Keys \cup LargeKeys
Caps == 1..MaxCap
\* sm_ratio as a percentage: the default of each class and 0.5
SmRatioPcts == {DefaultSmRatioPct, 50}
AttnSmRatioPcts == {AttnDefaultSmRatioPct, 50}
ReqTypes == {1, 2}

VARIABLES
    policy,        \* which policy class the harness constructed
    capacity,      \* KVCacheStore.capacity
    store,         \* KVCacheStore._set
    status,        \* "ok" | "hang" | "capacity_error" | "stop_iteration" | "key_error"
    S, M,          \* Small / Main deques, index 1 is the head (left)
    G, G_set,      \* S3FIFO ghost deque and its membership set
    ghost,         \* GhostFIFO of S3FIFO_Attn (self.G) and S3GDFS (self.ghost)
    freq,          \* S3FIFO / S3GDFS freq dict
    offset,        \* S3FIFO_Attn offset dict
    cache_req,     \* S3FIFO_Attn: the list whose id() is cached, <<>> for None
    cache_map,     \* S3FIFO_Attn: _offset_cache_map
    s_capacity,    \* s_capacity (S3FIFO*) / small_target (S3GDFS)
    m_capacity,    \* m_capacity (S3FIFO*) / main_target (S3GDFS)
    freq_map, min_freq, min_set, type_map,   \* LFU / LFU_PRO
    meta, heap, clock,                       \* S3GDFS
    \* history of the last access() call
    lastKey, lastRet, lastGate, rot, victims, seen,
    lastPrio,      \* S3GDFS: the priority the last access() computed
    lastReq,       \* the request list the last access() read, <<>> for none
    lastSameId,    \* S3FIFO_Attn: id(list) of the last miss equalled the cached id
    lastInit,      \* S3FIFO_Attn: what _get_init_offset returned to the last miss
    lastOp,        \* KVCacheStore used on its own: the last method called
    promoted,      \* S/M family: the keys the last access() moved from S to M
    evictM_calls,  \* S3FIFO: the _evictM() calls of the last access(), each with
                   \* the state it found and the state it left
    lastFreed,     \* S3GDFS: by how much _ensure_space_one_eviction() of the
                   \* last access() lowered Store.size()
    played,        \* large S3GDFS run: how much of the warm-up trace is played
    seeded,        \* S3FIFO_Attn: the residents admitted with a positive
                   \* initial offset and not hit since
    calls          \* LFU: per resident, the access() calls since its admission

vars == <<policy, capacity, store, status, S, M, G, G_set, ghost, freq, offset,
          cache_req, cache_map, s_capacity, m_capacity, freq_map, min_freq,
          min_set, type_map, meta, heap, clock,
          lastKey, lastRet, lastGate, rot, victims, seen, lastPrio,
          lastReq, lastSameId, lastInit, lastOp, promoted,
          evictM_calls, lastFreed, played, seeded, calls>>

\* ------------------------------------------------------- dicts and deques
EmptyDict == [x \in {} |-> 0]
Get(d, k, dflt) == IF k \in DOMAIN d THEN d[k] ELSE dflt
Put(d, k, v) == [x \in (DOMAIN d) \cup {k} |-> IF x = k THEN v ELSE d[x]]
Pop(d, k) == [x \in (DOMAIN d) \ {k} |-> d[x]]

AppendLeft(q, k) == <<k>> \o q
Tail1(q) == q[Len(q)]
PopRight(q) == SubSeq(q, 1, Len(q) - 1)
Elems(q) == {q[i] : i \in 1..Len(q)}
NoDup(q) == \A i, j \in 1..Len(q) : i # j => q[i] # q[j]
\* deque.remove(k): drops the first occurrence (caller catches ValueError)
RemoveFirst(q, k) ==
    IF k \notin Elems(q) THEN q
    ELSE LET i == CHOOSE i \in 1..Len(q) :
                      q[i] = k /\ \A j \in 1..(i - 1) : q[j] # k
         IN SubSeq(q, 1, i - 1) \o SubSeq(q, i + 1, Len(q))
Min2(a, b) == IF a < b THEN a ELSE b
Max2(a, b) == IF a > b THEN a ELSE b
ZeroRot == [k \in AllKeys |-> 0]
Bump(f, k) == [f EXCEPT ![k] = @ + 1]

\* -------------------------------------------------------------- KVCacheStore
\* add(): the key is put in the set first, then the size is checked
StoreAdd(st, k) ==
    LET s1 == st.store \cup {k}
    IN [st EXCEPT !.store = s1,
                  !.err = IF Cardinality(s1) > capacity
                          THEN "capacity_error" ELSE @]
StoreDelete(st, k) == [st EXCEPT !.store = @ \ {k}]
StoreSize(st) == Cardinality(st.store)

\* int(sm_ratio * store.capacity), sm_ratio given in percent
SCapacityOf(pct, cap) == (pct * cap) \div 100

\* ===================================================================== S3FIFO
ghost_capacity == capacity

RECURSIVE S3FIFO_ghost_trim(_)
S3FIFO_ghost_trim(st) ==
    IF Len(st.G) > ghost_capacity
    THEN S3FIFO_ghost_trim([st EXCEPT !.G = PopRight(@),
                                      !.G_set = @ \ {Tail1(st.G)}])
    ELSE st

S3FIFO_ghost_add(st, key) ==
    S3FIFO_ghost_trim([st EXCEPT !.G = AppendLeft(@, key),
                                 !.G_set = @ \cup {key}])

S3FIFO_ghost_remove(st, key) ==
    IF key \in st.G_set
    THEN [st EXCEPT !.G_set = @ \ {key}, !.G = RemoveFirst(@, key)]
    ELSE st

RECURSIVE S3FIFO_evictM(_)
S3FIFO_evictM(st) ==
    IF Len(st.M) = 0 THEN st
    ELSE LET t == Tail1(st.M)
             t_freq == Get(st.freq, t, 0)
         IN IF t_freq > 0
            THEN S3FIFO_evictM([st EXCEPT !.M = AppendLeft(PopRight(@), t),
                                          !.freq = Put(@, t, t_freq - 1),
                                          !.rot = Bump(@, t)])
            ELSE LET s1 == StoreDelete([st EXCEPT !.M = PopRight(@)], t)
                     s2 == S3FIFO_ghost_add(s1, t)
                 IN [s2 EXCEPT !.freq = Pop(@, t),
                               !.victims = Append(@, t)]

\* what a call of _evictM reads and writes
S3FIFO_snapshot(st) ==
    [store |-> st.store, M |-> st.M, G |-> st.G, G_set |-> st.G_set,
     freq |-> st.freq, rot |-> st.rot, victims |-> st.victims]

\* self._evictM() at a call site; a call on an empty M does nothing and is
\* not recorded
S3FIFO_call_evictM(st) ==
    IF Len(st.M) = 0 THEN st
    ELSE LET n == S3FIFO_evictM(st)
         IN [n EXCEPT !.evictM_calls =
                          Append(@, [before |-> S3FIFO_snapshot(st),
                                     after |-> S3FIFO_snapshot(n)])]

\* mutant: M may run one key over its target
S3FIFO_M_is_over_by_two(st) == Len(st.M) > m_capacity + 1
\* while len(self.M) > self.m_capacity
S3FIFO_M_is_over(st) == Len(st.M) > m_capacity

RECURSIVE S3FIFO_rebalance_M_if_over(_)
S3FIFO_rebalance_M_if_over(st) ==
    IF S3FIFO_M_is_over(st)
    THEN S3FIFO_rebalance_M_if_over(S3FIFO_call_evictM(st))
    ELSE st

S3FIFO_promote_threshold == 1
\* if t_freq > 1
S3FIFO_promotes(t_freq) == t_freq > S3FIFO_promote_threshold

RECURSIVE S3FIFO_evictS(_)
S3FIFO_evictS(st) ==
    IF Len(st.S) = 0 THEN st
    ELSE LET t == Tail1(st.S)
             t_freq == Get(st.freq, t, 0)
             s1 == [st EXCEPT !.S = PopRight(@)]
         IN IF S3FIFO_promotes(t_freq)
            THEN S3FIFO_evictS(S3FIFO_rebalance_M_if_over(
                     [s1 EXCEPT !.M = AppendLeft(@, t),
                                !.promoted = Append(@, t)]))
            ELSE LET s2 == StoreDelete(S3FIFO_ghost_add(s1, t), t)
                 IN [s2 EXCEPT !.freq = Pop(@, t),
                               !.victims = Append(@, t)]

S3FIFO_evict(st) ==
    IF Len(st.S) >= s_capacity THEN S3FIFO_evictS(st) ELSE S3FIFO_call_evictM(st)

\* the "while store.size() >= capacity: evict()" loop of insert; evict() is a
\* function of the state, so an evict() that changes nothing repeats forever
RECURSIVE S3FIFO_ensure_space(_)
S3FIFO_ensure_space(st) ==
    IF StoreSize(st) >= capacity
    THEN LET n == S3FIFO_evict(st)
         IN IF n = st THEN [st EXCEPT !.err = "hang"]
            ELSE S3FIFO_ensure_space(n)
    ELSE st

S3FIFO_insert_head_S(st, key) == StoreAdd([st EXCEPT !.S = AppendLeft(@, key)], key)
\* mutant: the key is queued in M and never added to the Store
S3FIFO_insert_head_M_no_add(st, key) == [st EXCEPT !.M = AppendLeft(@, key)]
S3FIFO_insert_head_M(st, key) == StoreAdd([st EXCEPT !.M = AppendLeft(@, key)], key)

S3FIFO_insert(st, key) ==
    LET s0 == S3FIFO_ensure_space(st)
    IN IF s0.err # "ok" THEN s0
       ELSE IF key \in s0.G_set
            THEN LET s1 == S3FIFO_insert_head_M(s0, key)
                 IN IF s1.err # "ok" THEN s1
                    ELSE S3FIFO_ghost_remove(S3FIFO_rebalance_M_if_over(s1), key)
            ELSE S3FIFO_insert_head_S(s0, key)

\* mutant: residency looked up in M alone
S3FIFO_hit_test_M_only(st, key) == key \in Elems(st.M)
S3FIFO_hit_test(st, key) == key \in st.store

\* mutant: the counter is not capped
S3FIFO_hit_count_uncapped(old) == old + 1
\* min(self.freq.get(key, 0) + 1, 3)
S3FIFO_hit_count(old) == Min2(old + 1, FreqCap)

\* mutant: a hit also moves the key to the head of its queue
S3FIFO_hit_moves_to_head(st, key) ==
    [st EXCEPT !.freq = Put(@, key, S3FIFO_hit_count(Get(@, key, 0))),
               !.S = IF key \in Elems(@) THEN AppendLeft(RemoveFirst(@, key), key)
                     ELSE @,
               !.M = IF key \in Elems(@) THEN AppendLeft(RemoveFirst(@, key), key)
                     ELSE @,
               !.ret = "hit"]
\* the hit branch of access: the counter of the key, nothing else
S3FIFO_hit(st, key) ==
    [st EXCEPT !.freq = Put(@, key, S3FIFO_hit_count(Get(@, key, 0))),
               !.ret = "hit"]

S3FIFO_access(st, key) ==
    IF S3FIFO_hit_test(st, key)
    THEN S3FIFO_hit(st, key)
    ELSE LET s1 == S3FIFO_insert(st, key)
         IN IF s1.err # "ok" THEN [s1 EXCEPT !.ret = s1.err]
            ELSE [s1 EXCEPT !.freq = Put(@, key, 0), !.ret = "miss"]

S3FIFO_state ==
    [store |-> store, S |-> S, M |-> M, G |-> G, G_set |-> G_set, freq |-> freq,
     err |-> "ok", ret |-> "none", rot |-> ZeroRot, victims |-> <<>>,
     promoted |-> <<>>, evictM_calls |-> <<>>]

\* variables no S3FIFO action touches
S3FIFO_frame ==
    UNCHANGED <<policy, capacity, s_capacity, m_capacity, ghost, offset,
                cache_req, cache_map, freq_map, min_freq, min_set, type_map,
                meta, heap, clock, lastGate, lastPrio, lastReq, lastSameId,
                lastInit, lastOp, lastFreed, played, seeded, calls>>

AccessS3FIFO ==
    /\ policy = "S3FIFO"
    /\ status = "ok"
    /\ \E key \in Keys :
         \E r \in {S3FIFO_access(S3FIFO_state, key)} :
            /\ store' = r.store
            /\ S' = r.S
            /\ M' = r.M
            /\ G' = r.G
            /\ G_set' = r.G_set
            /\ freq' = r.freq
            /\ status' = r.err
            /\ lastKey' = key
            /\ seen' = seen \cup {key}
            /\ lastRet' = r.ret
            /\ rot' = r.rot
            /\ victims' = r.victims
            /\ promoted' = r.promoted
            /\ evictM_calls' = r.evictM_calls
    /\ S3FIFO_frame

\* the state every constructor leaves behind, policy and split still open
InitCommon ==
    /\ store = {}
    /\ status = "ok"
    /\ S = <<>> /\ M = <<>> /\ G = <<>> /\ G_set = {}
    /\ ghost = <<>>
    /\ freq = EmptyDict /\ offset = EmptyDict
    /\ cache_req = <<>> /\ cache_map = EmptyDict
    /\ freq_map = EmptyDict /\ min_freq = 0 /\ min_set = {} /\ type_map = EmptyDict
    /\ meta = EmptyDict /\ heap = {} /\ clock = 0
    /\ lastKey = 0 /\ lastRet = "none" /\ lastGate = "none" /\ lastPrio = 0
    /\ lastReq = <<>> /\ lastSameId = FALSE /\ lastInit = 0 /\ lastOp = "none"
    /\ promoted = <<>> /\ evictM_calls = <<>> /\ lastFreed = 0
    /\ played = 0 /\ seeded = {} /\ calls = EmptyDict
    /\ rot = ZeroRot /\ victims = <<>> /\ seen = {}

InitS3FIFO ==
    /\ policy = "S3FIFO"
    /\ capacity \in Caps
    /\ \E pct \in SmRatioPcts : s_capacity = SCapacityOf(pct, capacity)
    /\ m_capacity = capacity - s_capacity
    /\ InitCommon

NextS3FIFO == AccessS3FIFO
SpecS3FIFO == InitS3FIFO /\ [][NextS3FIFO]_vars

\* ================================================================== GhostFIFO
\* bounded FIFO with membership: a duplicate-free sequence, index 1 the head
GhostFIFO_contains(g, k) == k \in Elems(g)
GhostFIFO_remove(g, k) == RemoveFirst(g, k)
GhostFIFO_add(g, k) ==
    LET g1 == AppendLeft(GhostFIFO_remove(g, k), k)
    IN IF Len(g1) > capacity THEN SubSeq(g1, 1, capacity) ELSE g1

\* ================================================================ S3FIFO_Attn
Requests == UNION {[1..n -> Keys] : n \in 0..MaxReqLen}
\* evaluate() passes each id of a record together with the record's list; the
\* policy contract also allows an empty or absent list
HarnessCall(key, req) == Len(req) = 0 \/ key \in Elems(req)
\* a hit never reads the list, so one list stands for all of them there
AttnCall(key, req) ==
    IF key \in store THEN req = <<>> ELSE HarnessCall(key, req)

RECURSIVE SplitRuns(_, _, _, _)
SplitRuns(seq, i, runs, cur) ==
    IF i > Len(seq) THEN Append(runs, cur)
    ELSE IF seq[i] = seq[i - 1] + 1
         THEN SplitRuns(seq, i + 1, runs, Append(cur, seq[i]))
         ELSE SplitRuns(seq, i + 1, Append(runs, cur), <<seq[i]>>)

\* out[x] = len(runs) - 1 - idx for the last run (0-based idx) that holds x
Attn_compute_request_offsets(seq) ==
    IF Len(seq) = 0 THEN EmptyDict
    ELSE LET runs == SplitRuns(seq, 2, <<>>, <<seq[1]>>)
             R == Len(runs)
         IN [x \in Elems(seq) |->
                LET idx == CHOOSE i \in 1..R :
                               /\ x \in Elems(runs[i])
                               /\ \A j \in (i + 1)..R : x \notin Elems(runs[j])
                IN R - idx]

\* The cache is keyed by id(list) and holds no reference to the list.  same_id
\* says whether id(req) equals the cached id: it does for the list object that
\* was cached (whatever it holds by now), and it can for a new list that
\* CPython allocates at the address of the cached list once that one is freed.
\* cache_req keeps the content the cached map was computed from.
Attn_get_init_offset(st, key, req, same_id) ==
    IF Len(req) = 0 THEN [st EXCEPT !.init = 0]
    ELSE LET s1 == IF ~same_id
                   THEN [st EXCEPT !.cache_map = Attn_compute_request_offsets(req),
                                   !.cache_req = req]
                   ELSE st
         IN [s1 EXCEPT !.init = Min2(Get(s1.cache_map, key, 0), FreqCap)]

\* id(req) can equal the cached id only when an id is cached and the list is read
Attn_id_outcomes(cached, key, req) ==
    IF cached # <<>> /\ Len(req) > 0 THEN BOOLEAN ELSE {FALSE}

RECURSIVE Attn_evictM(_)
Attn_evictM(st) ==
    IF Len(st.M) = 0 THEN st
    ELSE LET t == Tail1(st.M)
             t_off == Get(st.offset, t, 0)
         IN IF t_off > 0
            THEN Attn_evictM([st EXCEPT !.M = AppendLeft(PopRight(@), t),
                                        !.offset = Put(@, t, t_off - 1),
                                        !.rot = Bump(@, t)])
            ELSE LET s1 == StoreDelete([st EXCEPT !.M = PopRight(@)], t)
                 IN [s1 EXCEPT !.ghost = GhostFIFO_add(@, t),
                               !.offset = Pop(@, t),
                               !.victims = Append(@, t)]

RECURSIVE Attn_rebalance_M_if_over(_)
Attn_rebalance_M_if_over(st) ==
    IF Len(st.M) > m_capacity
    THEN Attn_rebalance_M_if_over(Attn_evictM(st))
    ELSE st

Attn_promote_threshold == 0
\* mutant: the S3FIFO threshold, more than one
Attn_promotes_above_one(t_off) == t_off > 1
\* if t_off > 0
Attn_promotes(t_off) == t_off > Attn_promote_threshold

RECURSIVE Attn_evictS(_)
Attn_evictS(st) ==
    IF Len(st.S) = 0 THEN st
    ELSE LET t == Tail1(st.S)
             t_off == Get(st.offset, t, 0)
             s1 == [st EXCEPT !.S = PopRight(@)]
         IN IF Attn_promotes(t_off)
            THEN Attn_evictS(Attn_rebalance_M_if_over(
                     [s1 EXCEPT !.M = AppendLeft(@, t),
                                !.promoted = Append(@, t)]))
            ELSE LET s2 == StoreDelete([s1 EXCEPT !.ghost = GhostFIFO_add(@, t)], t)
                 IN [s2 EXCEPT !.offset = Pop(@, t),
                               !.victims = Append(@, t)]

Attn_evict(st) ==
    IF Len(st.S) >= s_capacity THEN Attn_evictS(st) ELSE Attn_evictM(st)

RECURSIVE Attn_ensure_space(_)
Attn_ensure_space(st) ==
    IF StoreSize(st) >= capacity
    THEN LET n == Attn_evict(st)
         IN IF n = st THEN [st EXCEPT !.err = "hang"]
            ELSE Attn_ensure_space(n)
    ELSE st

Attn_insert_head_S(st, key) == StoreAdd([st EXCEPT !.S = AppendLeft(@, key)], key)
Attn_insert_head_M(st, key) == StoreAdd([st EXCEPT !.M = AppendLeft(@, key)], key)

Attn_insert(st, key) ==
    LET s0 == Attn_ensure_space(st)
    IN IF s0.err # "ok" THEN s0
       ELSE IF GhostFIFO_contains(s0.ghost, key)
            THEN LET s1 == Attn_insert_head_M(s0, key)
                 IN IF s1.err # "ok" THEN s1
                    ELSE Attn_rebalance_M_if_over(
                             [s1 EXCEPT !.ghost = GhostFIFO_remove(@, key)])
            ELSE Attn_insert_head_S(s0, key)

Attn_access(st, key, req, same_id) ==
    IF key \in st.store
    THEN [st EXCEPT !.offset = Put(@, key, Min2(Get(@, key, 0) + 1, FreqCap)),
                    !.ret = "hit"]
    ELSE LET s1 == Attn_get_init_offset(st, key, req, same_id)
             s2 == Attn_insert([s1 EXCEPT !.offset = Put(@, key, s1.init)], key)
         IN [s2 EXCEPT !.ret = IF s2.err # "ok" THEN s2.err ELSE "miss"]

Attn_state ==
    [store |-> store, S |-> S, M |-> M, ghost |-> ghost, offset |-> offset,
     cache_req |-> cache_req, cache_map |-> cache_map, init |-> 0,
     err |-> "ok", ret |-> "none", rot |-> ZeroRot, victims |-> <<>>,
     promoted |-> <<>>]

Attn_frame ==
    UNCHANGED <<policy, capacity, s_capacity, m_capacity, G, G_set, freq,
                freq_map, min_freq, min_set, type_map, meta, heap, clock,
                lastGate, lastPrio, lastOp, evictM_calls, lastFreed,
                played, calls>>

AccessAttn ==
    /\ policy = "S3FIFO_Attn"
    /\ status = "ok"
    /\ \E key \in Keys, req \in Requests :
         /\ AttnCall(key, req)
         /\ \E same_id \in (IF key \in store THEN {FALSE}
                           ELSE Attn_id_outcomes(cache_req, key, req)) :
            \E r \in {Attn_access(Attn_state, key, req, same_id)} :
               /\ lastReq' = req
               /\ lastSameId' = same_id
               /\ lastInit' = r.init
               /\ store' = r.store
               /\ S' = r.S
               /\ M' = r.M
               /\ ghost' = r.ghost
               /\ offset' = r.offset
               /\ cache_req' = r.cache_req
               /\ cache_map' = r.cache_map
               /\ status' = r.err
               /\ lastKey' = key
               /\ seen' = seen \cup {key}
               /\ lastRet' = r.ret
               /\ rot' = r.rot
               /\ victims' = r.victims
               /\ promoted' = r.promoted
               /\ seeded' = IF r.ret = "hit" THEN seeded \ {key}
                            ELSE (seeded \cup (IF r.init > 0 THEN {key} ELSE {}))
                                     \cap r.store
    /\ Attn_frame

InitAttn ==
    /\ policy = "S3FIFO_Attn"
    /\ capacity \in Caps
    /\ \E pct \in AttnSmRatioPcts : s_capacity = SCapacityOf(pct, capacity)
    /\ m_capacity = capacity - s_capacity
    /\ InitCommon

NextAttn == AccessAttn
SpecAttn == InitAttn /\ [][NextAttn]_vars

\* ======================================================================== LFU
\* mutant: min_set is not rebuilt
LFU_renew_min_set_skipped(st) == st
LFU_renew_min_set(st) ==
    [st EXCEPT !.min_set = {k \in DOMAIN st.freq_map : st.freq_map[k] = st.min_freq}]

\* mutant: the count stops at the cap of the S3FIFO counters
LFU_count_up_capped(c) == Min2(c + 1, FreqCap)
\* self.freq_map[key] += 1
LFU_count_up(c) == c + 1

LFU_hit(st, key) ==
    IF key \notin DOMAIN st.freq_map THEN [st EXCEPT !.err = "key_error"]
    ELSE LET s1 == [st EXCEPT !.freq_map = Put(@, key, LFU_count_up(@[key]))]
             s2 == IF key \in s1.min_set
                   THEN IF s1.freq_map[key] > s1.min_freq
                           /\ Cardinality(s1.min_set) = 1
                        THEN LFU_renew_min_set([s1 EXCEPT !.min_freq = @ + 1])
                        ELSE [s1 EXCEPT !.min_set = @ \ {key}]
                   ELSE s1
         IN [s2 EXCEPT !.ret = "hit"]

\* mutant: the victim's count stays in freq_map
LFU_evict_keeps_count(st, evict_key) ==
    [StoreDelete(st, evict_key) EXCEPT !.min_set = @ \ {evict_key},
                                       !.victims = Append(@, evict_key)]
\* store.delete / del freq_map / min_set.remove of the chosen victim
LFU_evict(st, evict_key) ==
    LET s1 == StoreDelete(st, evict_key)
    IN IF evict_key \notin DOMAIN s1.freq_map THEN [s1 EXCEPT !.err = "key_error"]
       ELSE [s1 EXCEPT !.freq_map = Pop(@, evict_key),
                       !.min_set = @ \ {evict_key},
                       !.victims = Append(@, evict_key)]

LFU_admit(st, key) ==
    LET s1 == StoreAdd(st, key)
    IN IF s1.err # "ok" THEN s1
       ELSE LET s2 == [s1 EXCEPT !.freq_map = Put(@, key, 1)]
                s3 == IF s2.min_freq > 1
                      THEN [s2 EXCEPT !.min_set = {key}]
                      ELSE s2
            IN [s3 EXCEPT !.min_freq = 1, !.min_set = @ \cup {key}]

\* mutant: the victim is drawn from all residents
LFU_victims_any_resident(st) == st.store
\* next(iter(min_set)): any member, in the set's iteration order
LFU_victims(st) == st.min_set

\* mutant: a full Store is not seen as full
LFU_needs_eviction_late(st) == StoreSize(st) > capacity
LFU_needs_eviction(st) == StoreSize(st) >= capacity

LFU_miss(st, key, evict_key) ==
    LET s1 == IF LFU_needs_eviction(st)
              THEN IF st.min_set = {} THEN [st EXCEPT !.err = "stop_iteration"]
                   ELSE LFU_evict(st, evict_key)
              ELSE st
        s2 == IF s1.err # "ok" THEN s1 ELSE LFU_admit(s1, key)
    IN [s2 EXCEPT !.ret = IF s2.err # "ok" THEN s2.err ELSE "miss"]

LFU_state ==
    [store |-> store, freq_map |-> freq_map, min_freq |-> min_freq,
     min_set |-> min_set, type_map |-> type_map,
     err |-> "ok", ret |-> "none", victims |-> <<>>]

LFU_frame ==
    UNCHANGED <<policy, capacity, s_capacity, m_capacity, S, M, G, G_set, ghost,
                freq, offset, cache_req, cache_map, meta, heap, clock,
                lastGate, lastPrio, lastReq, lastSameId, lastInit, lastOp,
                rot, promoted, evictM_calls, lastFreed, played, seeded>>

LFU_commit(r, key) ==
    /\ store' = r.store
    /\ freq_map' = r.freq_map
    /\ min_freq' = r.min_freq
    /\ min_set' = r.min_set
    /\ type_map' = r.type_map
    /\ status' = r.err
    /\ lastKey' = key
    /\ seen' = seen \cup {key}
    /\ lastRet' = r.ret
    /\ victims' = r.victims
    /\ calls' = IF r.ret = "hit" THEN Put(calls, key, Get(calls, key, 0) + 1)
                ELSE IF r.ret = "miss"
                     THEN Put([k \in DOMAIN calls \cap r.store |-> calls[k]], key, 1)
                     ELSE calls
    /\ LFU_frame

\* the pool a victim is drawn from; {0} stands for "no victim is looked up"
VictimPool(st, pool) ==
    IF LFU_needs_eviction(st) /\ pool # {} THEN pool ELSE {0}

AccessLFU ==
    /\ policy = "LFU"
    /\ status = "ok"
    /\ \E key \in Keys :
         IF key \in store
         THEN /\ Get(freq_map, key, 0) < MaxFreq
              /\ \E r \in {LFU_hit(LFU_state, key)} : LFU_commit(r, key)
         ELSE \E v \in VictimPool(LFU_state, LFU_victims(LFU_state)) :
                 \E r \in {LFU_miss(LFU_state, key, v)} : LFU_commit(r, key)

InitLFU ==
    /\ policy = "LFU"
    /\ capacity \in Caps
    /\ s_capacity = 0 /\ m_capacity = 0
    /\ InitCommon

NextLFU == AccessLFU
SpecLFU == InitLFU /\ [][NextLFU]_vars

\* ==================================================================== LFU_PRO
\* the self.total access counter is written and never read; it is left out
LFU_PRO_hit(st, key, request_type) ==
    LET s1 == LFU_hit(st, key)
    IN IF s1.err # "ok" THEN s1
       ELSE [s1 EXCEPT !.type_map = Put(@, key, request_type)]

\* mutant: any member of min_set, whatever its type
LFU_PRO_get_del_key_any_type(st, request_type) == st.min_set

\* get_del_key: the first member of min_set, in iteration order, whose type
\* differs from request_type; any member when none differs
LFU_PRO_get_del_key(st, request_type) ==
    LET other == {k \in st.min_set : Get(st.type_map, k, 0) # request_type}
    IN IF other # {} THEN other ELSE st.min_set

LFU_PRO_miss(st, key, request_type, evict_key) ==
    LET s1 == IF LFU_needs_eviction(st)
              THEN IF st.min_set = {} THEN [st EXCEPT !.err = "stop_iteration"]
                   ELSE LET e == LFU_evict(st, evict_key)
                        IN IF e.err # "ok" THEN e
                           ELSE [e EXCEPT !.type_map = Pop(@, evict_key)]
              ELSE st
        s2 == IF s1.err # "ok" THEN s1
              ELSE LET a == StoreAdd(s1, key)
                   IN IF a.err # "ok" THEN a
                      ELSE LET b == [a EXCEPT !.freq_map = Put(@, key, 1),
                                              !.type_map = Put(@, key, request_type)]
                               c == IF b.min_freq > 1
                                    THEN [b EXCEPT !.min_set = {key}]
                                    ELSE b
                           IN [c EXCEPT !.min_freq = 1, !.min_set = @ \cup {key}]
    IN [s2 EXCEPT !.ret = IF s2.err # "ok" THEN s2.err ELSE "miss"]

AccessLFU_PRO ==
    /\ policy = "LFU_PRO"
    /\ status = "ok"
    /\ \E key \in Keys, request_type \in ReqTypes :
         IF key \in store
         THEN /\ Get(freq_map, key, 0) < MaxFreq
              /\ \E r \in {LFU_PRO_hit(LFU_state, key, request_type)} :
                    LFU_commit(r, key)
         ELSE \E v \in VictimPool(LFU_state,
                                  LFU_PRO_get_del_key(LFU_state, request_type)) :
                 \E r \in {LFU_PRO_miss(LFU_state, key, request_type, v)} :
                    LFU_commit(r, key)

InitLFU_PRO ==
    /\ policy = "LFU_PRO"
    /\ capacity \in Caps
    /\ s_capacity = 0 /\ m_capacity = 0
    /\ InitCommon

NextLFU_PRO == AccessLFU_PRO
SpecLFU_PRO == InitLFU_PRO /\ [][NextLFU_PRO]_vars

\* ===================================================================== S3GDFS
\* Priorities are floats clock + freq + beta_pos / (1 + idx); they are kept as
\* integers in units of 1 / PrioScale, PrioScale a common multiple of every
\* 1 + idx a request list of the model can yield.
RECURSIVE Gcd(_, _)
Gcd(a, b) == IF b = 0 THEN a ELSE Gcd(b, a % b)
RECURSIVE LcmUpTo(_)
LcmUpTo(n) == IF n <= 1 THEN 1 ELSE (LcmUpTo(n - 1) * n) \div Gcd(LcmUpTo(n - 1), n)
PrioScale == LcmUpTo(MaxGdfsReqLen)
GdfsRequests == UNION {[1..n -> Keys] : n \in 0..MaxGdfsReqLen}

small_target_of(cap) == Max2(MinSmallTarget, cap \div SmallTargetDivisor)

FirstIndex(req, key) == CHOOSE i \in 1..Len(req) :
                            req[i] = key /\ \A j \in 1..(i - 1) : req[j] # key

GDFS_pos_bias(key, req) ==
    IF Len(req) = 0 THEN 0
    ELSE IF key \in Elems(req)
         THEN (BetaPos * PrioScale) \div FirstIndex(req, key)
         ELSE 0

GDFS_calc_priority(st, f, pos_bias) == st.clock + f * PrioScale + pos_bias

GDFS_update_meta_and_heap(st, key, priority) ==
    LET m == IF key \in DOMAIN st.meta
             THEN [priority |-> priority, version |-> st.meta[key].version + 1]
             ELSE [priority |-> priority, version |-> 0]
    IN [st EXCEPT !.meta = Put(@, key, m),
                  !.heap = @ \cup {<<m.priority, m.version, key>>}]

\* Python tuple order on (priority, version, key)
TupleLE(a, b) ==
    \/ a[1] < b[1]
    \/ a[1] = b[1] /\ a[2] < b[2]
    \/ a[1] = b[1] /\ a[2] = b[2] /\ a[3] <= b[3]
HeapTop(h) == CHOOSE e \in h : \A f \in h : TupleLE(e, f)
\* mutant: only an entry newer than the meta version counts as live
HeapEntryValid_newer_only(st, e) ==
    /\ e[3] \in DOMAIN st.meta
    /\ e[2] > st.meta[e[3]].version
    /\ e[3] \in st.store
HeapEntryValid(st, e) ==
    /\ e[3] \in DOMAIN st.meta
    /\ e[2] = st.meta[e[3]].version
    /\ e[3] \in st.store

\* the heap is held as the set of its entries: equal entries are stale or
\* live together, so the heap's multiplicities never show
RECURSIVE GDFS_drop_stale(_)
GDFS_drop_stale(st) ==
    IF st.heap = {} THEN st
    ELSE IF HeapEntryValid(st, HeapTop(st.heap)) THEN st
         ELSE GDFS_drop_stale([st EXCEPT !.heap = @ \ {HeapTop(st.heap)}])

\* _peek_valid_min: the state with the stale tops dropped; min_pr is then
\* the top's priority, or None (has_min FALSE) on an empty heap
\* mutant: the top is popped whether stale or live
GDFS_peek_pops_top(st) ==
    IF st.heap = {} THEN st ELSE [st EXCEPT !.heap = @ \ {HeapTop(@)}]
GDFS_peek_valid_min(st) == GDFS_drop_stale(st)
GDFS_has_min(st) == st.heap # {}
GDFS_min_pr(st) == HeapTop(st.heap)[1]

\* mutant: the clock is set to the victim's priority
GDFS_clock_after_set_to_victim(c, pr_t) == pr_t
\* self.clock = max(self.clock, float(pr_t))
GDFS_clock_after(c, pr_t) == Max2(c, pr_t)

GDFS_real_evict(st, t) ==
    LET s1 == StoreDelete(st, t)
        pr_t == IF t \in DOMAIN s1.meta THEN s1.meta[t].priority ELSE s1.clock
    IN [s1 EXCEPT !.ghost = GhostFIFO_add(@, t),
                  !.clock = GDFS_clock_after(@, pr_t),
                  !.meta = Pop(@, t),
                  !.freq = Pop(@, t),
                  !.victims = Append(@, t)]

RECURSIVE GDFS_evictM_real_once(_)
GDFS_evictM_real_once(st) ==
    IF Len(st.M) = 0 THEN st
    ELSE LET t == Tail1(st.M)
             t_freq == Get(st.freq, t, 0)
         IN IF t_freq > 0
            THEN GDFS_evictM_real_once(
                     [st EXCEPT !.M = AppendLeft(PopRight(@), t),
                                !.freq = Put(@, t, t_freq - 1),
                                !.rot = Bump(@, t)])
            ELSE GDFS_real_evict([st EXCEPT !.M = PopRight(@)], t)

RECURSIVE GDFS_rebalance_M_if_over(_)
GDFS_rebalance_M_if_over(st) ==
    IF Len(st.M) > m_capacity /\ StoreSize(st) > 0
    THEN GDFS_rebalance_M_if_over(GDFS_evictM_real_once(st))
    ELSE st

GDFS_promote_threshold == 1

RECURSIVE GDFS_evictS_real_once(_)
GDFS_evictS_real_once(st) ==
    IF Len(st.S) = 0 THEN st
    ELSE LET t == Tail1(st.S)
             s1 == [st EXCEPT !.S = PopRight(@)]
             t_freq == Get(st.freq, t, 0)
         IN IF t_freq > GDFS_promote_threshold
            THEN GDFS_evictS_real_once(GDFS_rebalance_M_if_over(
                     [s1 EXCEPT !.M = AppendLeft(@, t),
                                !.promoted = Append(@, t)]))
            ELSE GDFS_real_evict(s1, t)

\* mutant: space is always sought in M
GDFS_ensure_space_M_only(st) == GDFS_evictM_real_once(st)
GDFS_ensure_space_one_eviction(st) ==
    IF Len(st.S) >= s_capacity
    THEN GDFS_evictS_real_once(st)
    ELSE GDFS_evictM_real_once(st)

GDFS_insert_head_S(st, key, priority) ==
    LET s1 == StoreAdd(st, key)
    IN IF s1.err # "ok" THEN s1
       ELSE GDFS_update_meta_and_heap([s1 EXCEPT !.S = AppendLeft(@, key)],
                                      key, priority)

GDFS_insert_head_M(st, key, priority) ==
    LET s1 == StoreAdd(st, key)
    IN IF s1.err # "ok" THEN s1
       ELSE GDFS_update_meta_and_heap([s1 EXCEPT !.M = AppendLeft(@, key)],
                                      key, priority)

\* the admission gate: reject iff a valid minimum exists and pr_new < min_pr
GDFS_gate_rejects(st, pr_new) == GDFS_has_min(st) /\ pr_new < GDFS_min_pr(st)

GDFS_insert(st, key, pr_new) ==
    LET s1 == IF GhostFIFO_contains(st.ghost, key)
              THEN LET a == GDFS_insert_head_M(st, key, pr_new)
                   IN IF a.err # "ok" THEN a
                      ELSE GDFS_rebalance_M_if_over(
                               [a EXCEPT !.ghost = GhostFIFO_remove(@, key)])
              ELSE GDFS_insert_head_S(st, key, pr_new)
    IN IF s1.err # "ok" THEN [s1 EXCEPT !.ret = s1.err]
       ELSE [s1 EXCEPT !.freq = Put(@, key, 0), !.ret = "miss"]

GDFS_access(st, key, req) ==
    IF key \in st.store
    THEN LET f == Min2(Get(st.freq, key, 0) + 1, FreqCap)
             s1 == [st EXCEPT !.freq = Put(@, key, f)]
             pr == GDFS_calc_priority(s1, f, GDFS_pos_bias(key, req))
         IN [GDFS_update_meta_and_heap(s1, key, pr) EXCEPT !.ret = "hit", !.pr = pr]
    ELSE LET pr_new == GDFS_calc_priority(st, 1, GDFS_pos_bias(key, req))
         IN IF StoreSize(st) >= capacity
            THEN LET p == GDFS_peek_valid_min(st)
                 IN IF GDFS_gate_rejects(p, pr_new)
                    THEN [p EXCEPT !.ret = "miss", !.gate = "rejected", !.pr = pr_new]
                    ELSE LET q == [p EXCEPT !.gate = "admitted", !.pr = pr_new]
                             e == GDFS_ensure_space_one_eviction(q)
                         IN GDFS_insert(
                                [e EXCEPT !.freed = StoreSize(q) - StoreSize(e)],
                                key, pr_new)
            ELSE GDFS_insert([st EXCEPT !.gate = "free", !.pr = pr_new], key, pr_new)

GDFS_state ==
    [store |-> store, S |-> S, M |-> M, ghost |-> ghost, freq |-> freq,
     meta |-> meta, heap |-> heap, clock |-> clock,
     err |-> "ok", ret |-> "none", gate |-> "none", pr |-> 0,
     rot |-> ZeroRot, victims |-> <<>>, promoted |-> <<>>, freed |-> 0]

GDFS_frame ==
    UNCHANGED <<policy, capacity, s_capacity, m_capacity, G, G_set, offset,
                cache_req, cache_map, freq_map, min_freq, min_set, type_map,
                lastSameId, lastInit, lastOp, evictM_calls, seeded, calls>>

\* the clock and the versions grow without bound; the model stops there
GDFS_within_bounds(key) ==
    /\ clock <= MaxClock * PrioScale
    /\ key \in DOMAIN meta => meta[key].version < MaxVersion

GDFS_commit(r, key, req) ==
    /\ store' = r.store
    /\ S' = r.S
    /\ M' = r.M
    /\ ghost' = r.ghost
    /\ freq' = r.freq
    /\ meta' = r.meta
    /\ heap' = r.heap
    /\ clock' = r.clock
    /\ status' = r.err
    /\ lastKey' = key
    /\ seen' = seen \cup {key}
    /\ lastRet' = r.ret
    /\ lastGate' = r.gate
    /\ lastPrio' = r.pr
    /\ lastReq' = req
    /\ rot' = r.rot
    /\ victims' = r.victims
    /\ promoted' = r.promoted
    /\ lastFreed' = r.freed
    /\ GDFS_frame

AccessGDFS ==
    /\ policy = "S3GDFS"
    /\ status = "ok"
    /\ \E key \in Keys, req \in GdfsRequests :
         /\ HarnessCall(key, req)
         /\ GDFS_within_bounds(key)
         /\ \E r \in {GDFS_access(GDFS_state, key, req)} :
               GDFS_commit(r, key, req)
    /\ UNCHANGED played

InitGDFS ==
    /\ policy = "S3GDFS"
    /\ capacity \in Caps
    /\ s_capacity = small_target_of(capacity)
    /\ m_capacity = capacity - s_capacity
    /\ InitCommon

NextGDFS == AccessGDFS
SpecGDFS == InitGDFS /\ [][NextGDFS]_vars

\* ------------------------------------------------- S3GDFS at capacity 20
\* small_target is max(1, capacity // 10): 2 from capacity 20 on.  The run
\* first plays a warm-up trace of one-id records: the keys 1..LargeCap are
\* admitted in turn, then each of the keys 1..LargeCap - 2 is hit twice;
\* evaluate() passes each id together with its record's list, <<key>>.  The
\* run goes on with any accesses to the three keys LargeCap - 1, LargeCap and
\* LargeCap + 1.
WarmUpTrace ==
    [i \in 1..LargeCap |-> i]
        \o [i \in 1..(2 * (LargeCap - 2)) |-> (i + 1) \div 2]
ActiveKeys == (LargeCap - 1)..(LargeCap + 1)

InitGDFSLarge ==
    /\ policy = "S3GDFS"
    /\ capacity = LargeCap
    /\ s_capacity = small_target_of(capacity)
    /\ m_capacity = capacity - s_capacity
    /\ InitCommon

WarmUpGDFSLarge ==
    /\ policy = "S3GDFS"
    /\ capacity = LargeCap
    /\ status = "ok"
    /\ played < Len(WarmUpTrace)
    /\ \E key \in {WarmUpTrace[played + 1]} :
         \E r \in {GDFS_access(GDFS_state, key, <<key>>)} :
            GDFS_commit(r, key, <<key>>)
    /\ played' = played + 1

AccessGDFSLarge ==
    /\ policy = "S3GDFS"
    /\ capacity = LargeCap
    /\ status = "ok"
    /\ played = Len(WarmUpTrace)
    /\ \E key \in ActiveKeys :
      \E req \in {<<>>, <<key>>} :
         /\ GDFS_within_bounds(key)
         /\ \E r \in {GDFS_access(GDFS_state, key, req)} :
               GDFS_commit(r, key, req)
    /\ UNCHANGED played

NextGDFSLarge == WarmUpGDFSLarge \/ AccessGDFSLarge
SpecGDFSLarge == InitGDFSLarge /\ [][NextGDFSLarge]_vars

\* ========================================================= the harness's runs
\* test.py builds one Store and one policy per run; a specification draws the
\* policy class in Init and then only that class's access() ever fires
InitAll == InitS3FIFO \/ InitAttn \/ InitLFU \/ InitLFU_PRO \/ InitGDFS
NextAll == AccessS3FIFO \/ AccessAttn \/ AccessLFU \/ AccessLFU_PRO \/ AccessGDFS
Spec == InitAll /\ [][NextAll]_vars

\* S3FIFO, S3FIFO_Attn, LFU, LFU_PRO
InitStrict == InitS3FIFO \/ InitAttn \/ InitLFU \/ InitLFU_PRO
NextStrict == AccessS3FIFO \/ AccessAttn \/ AccessLFU \/ AccessLFU_PRO
SpecStrict == InitStrict /\ [][NextStrict]_vars

\* the S/M family: S3FIFO, S3FIFO_Attn, S3GDFS
InitSM == InitS3FIFO \/ InitAttn \/ InitGDFS
NextSM == AccessS3FIFO \/ AccessAttn \/ AccessGDFS
SpecSM == InitSM /\ [][NextSM]_vars

\* S3FIFO and S3FIFO_Attn
InitFIFO == InitS3FIFO \/ InitAttn
NextFIFO == AccessS3FIFO \/ AccessAttn
SpecFIFO == InitFIFO /\ [][NextFIFO]_vars

\* LFU and LFU_PRO
InitLFUs == InitLFU \/ InitLFU_PRO
NextLFUs == AccessLFU \/ AccessLFU_PRO
SpecLFUs == InitLFUs /\ [][NextLFUs]_vars

\* ============================================================ KVCacheStore alone
\* a client that builds a Store and calls add and delete on it; an exception is
\* caught by the client, the object stays in use and status is the outcome of
\* the last call
StoreCaps == (0 - 1)..MaxCap

Store_state == [store |-> store, err |-> "ok"]

Store_frame ==
    UNCHANGED <<policy, capacity, S, M, G, G_set, ghost, freq, offset, cache_req,
                cache_map, s_capacity, m_capacity, freq_map, min_freq, min_set,
                type_map, meta, heap, clock, lastRet, lastGate, rot, victims,
                lastPrio, lastReq, lastSameId, lastInit, promoted,
                evictM_calls, lastFreed, played, seeded, calls>>

\* __init__: raises ValueError when capacity <= 0
InitStore ==
    /\ policy = "KVCacheStore"
    /\ capacity \in StoreCaps
    /\ s_capacity = 0 /\ m_capacity = 0
    /\ store = {}
    /\ status = IF capacity <= 0 THEN "value_error" ELSE "ok"
    /\ S = <<>> /\ M = <<>> /\ G = <<>> /\ G_set = {}
    /\ ghost = <<>>
    /\ freq = EmptyDict /\ offset = EmptyDict
    /\ cache_req = <<>> /\ cache_map = EmptyDict
    /\ freq_map = EmptyDict /\ min_freq = 0 /\ min_set = {} /\ type_map = EmptyDict
    /\ meta = EmptyDict /\ heap = {} /\ clock = 0
    /\ lastKey = 0 /\ lastRet = "none" /\ lastGate = "none" /\ lastPrio = 0
    /\ lastReq = <<>> /\ lastSameId = FALSE /\ lastInit = 0 /\ lastOp = "none"
    /\ promoted = <<>> /\ evictM_calls = <<>> /\ lastFreed = 0
    /\ played = 0 /\ seeded = {} /\ calls = EmptyDict
    /\ rot = ZeroRot /\ victims = <<>> /\ seen = {}

StoreAddCall ==
    /\ policy = "KVCacheStore"
    /\ status # "value_error"
    /\ \E k \in Keys :
         \E r \in {StoreAdd(Store_state, k)} :
            /\ store' = r.store
            /\ status' = r.err
            /\ lastKey' = k
            /\ seen' = seen \cup {k}
            /\ lastOp' = "add"
    /\ Store_frame

StoreDeleteCall ==
    /\ policy = "KVCacheStore"
    /\ status # "value_error"
    /\ \E k \in Keys :
         \E r \in {StoreDelete(Store_state, k)} :
            /\ store' = r.store
            /\ status' = r.err
            /\ lastKey' = k
            /\ seen' = seen \cup {k}
            /\ lastOp' = "delete"
    /\ Store_frame

NextStore == StoreAddCall \/ StoreDeleteCall
SpecStore == InitStore /\ [][NextStore]_vars

\* ===================================================================== claims
\* the capped counter of the S/M family: offset in S3FIFO_Attn, freq elsewhere
Counter == IF policy = "S3FIFO_Attn" THEN offset ELSE freq
Resident == Elems(S) \cup Elems(M)
DefaultSplit ==
    s_capacity = SCapacityOf(IF policy = "S3FIFO_Attn"
                             THEN AttnDefaultSmRatioPct
                             ELSE DefaultSmRatioPct, capacity)
MinOf(d) == CHOOSE v \in {d[k] : k \in DOMAIN d} : \A k \in DOMAIN d : v <= d[k]

\* C1: for S3FIFO, S3FIFO_Attn, LFU and LFU_PRO the Store never holds more
\* than capacity keys and KVCacheStore.add never raises its capacity error.
C1_StoreWithinCapacity ==
    Cardinality(store) <= capacity /\ status # "capacity_error"
C1_Witness ==
    /\ lastRet = "miss" /\ victims # <<>>
    /\ Cardinality(store) = capacity /\ lastKey \in store

\* C2: with the default sm_ratio every S3FIFO / S3FIFO_Attn access returns:
\* insert's eviction loop never spins without evicting.
C2_AccessReturns == DefaultSplit => status # "hang"

\* C3: access returns True exactly when the key was resident at entry, and
\* the first access to a key is a miss (all five policies).
C3_HitIffResident ==
    [][/\ (lastRet' = "hit") <=> (lastKey' \in store)
       /\ lastKey' \notin seen => lastRet' # "hit"]_vars
C3_Witness == lastRet = "hit" /\ lastKey \in store /\ Cardinality(store) > 1

\* C4: a miss that no admission gate rejected leaves the key resident
\* (S3FIFO, S3FIFO_Attn, S3GDFS).
C4_MissAdmitsKey ==
    (lastRet = "miss" /\ lastGate # "rejected") => lastKey \in store

\* C5: S and M hold no key twice, share no key, and together hold exactly the
\* Store's resident keys (S3FIFO, S3FIFO_Attn, S3GDFS).
C5_SMPartition ==
    /\ NoDup(S) /\ NoDup(M)
    /\ Elems(S) \cap Elems(M) = {}
    /\ Resident = store
    /\ Len(S) + Len(M) = Cardinality(store)
C5_Witness ==
    /\ lastRet = "miss" /\ victims # <<>>
    /\ S # <<>> /\ M # <<>> /\ Cardinality(store) = capacity

\* C6: in S3FIFO only resident keys have a freq entry; no key of the ghost
\* queue has one.
C6_FreqOnlyResident ==
    /\ DOMAIN freq \subseteq store
    /\ DOMAIN freq \cap Elems(G) = {}

\* C7: in S3FIFO / S3FIFO_Attn every key of S and M has a counter in 0..3; a
\* hit sets it to min(old + 1, 3); each rotation in M lowers it by exactly 1.
C7_CounterRange ==
    [][/\ \A k \in Resident' : k \in DOMAIN Counter' /\ Counter'[k] \in 0..FreqCap
       /\ lastRet' = "hit" =>
              /\ lastKey' \in DOMAIN Counter
              /\ Counter'[lastKey'] = Min2(Counter[lastKey'] + 1, FreqCap)
              /\ rot' = ZeroRot
       /\ \A k \in (store \cap store') \ {lastKey'} :
              /\ k \in DOMAIN Counter
              /\ Counter'[k] = Counter[k] - rot'[k]
              /\ Counter'[k] >= 0]_vars
C7_Witness ==
    /\ lastRet = "miss"
    /\ \E k \in Resident : rot[k] > 0 /\ k # lastKey

\* C8: in S3FIFO the ghost queue holds at most ghost_capacity keys and none
\* of them is resident.
C8_GhostBoundedDisjoint ==
    Len(G) <= ghost_capacity /\ Elems(G) \cap store = {}

\* C9: in LFU / LFU_PRO min_set is exactly the keys whose frequency is
\* min_freq, and min_freq is the least frequency of a non-empty cache.
C9_MinSetExact ==
    /\ min_set = {k \in DOMAIN freq_map : freq_map[k] = min_freq}
    /\ store # {} => /\ DOMAIN freq_map # {}
                     /\ min_freq = MinOf(freq_map)
                     /\ min_set # {}
C9_Witness ==
    /\ lastRet = "hit" /\ min_freq > 1
    /\ Cardinality(min_set) > 1

\* C10: in LFU freq_map is keyed by exactly the resident keys, every count is
\* at least 1, and min_freq is 0 only before the first access.
C10_FreqMapResident ==
    /\ DOMAIN freq_map = store
    /\ \A k \in DOMAIN freq_map : freq_map[k] >= 1
    /\ (min_freq >= 1) <=> (store # {})
    /\ min_freq = 0 => lastRet = "none"
C10_Witness ==
    /\ lastRet = "miss" /\ victims # <<>>
    /\ \E k \in store : freq_map[k] > 1

\* C11: in LFU a miss on a full Store evicts exactly one key, a resident of
\* least frequency, and admits the missed key; a miss on a Store that is not
\* full evicts nothing; the Store's size never decreases and stays at
\* capacity once it got there.
C11_LFUEvictsOneMinimum ==
    [][/\ lastRet' = "miss" =>
              /\ lastKey' \in store'
              /\ IF Cardinality(store) >= capacity
                 THEN /\ Len(victims') = 1
                      /\ victims'[1] \in store
                      /\ \A k \in store : freq_map[victims'[1]] <= freq_map[k]
                      /\ store' = (store \ {victims'[1]}) \cup {lastKey'}
                 ELSE /\ victims' = <<>>
                      /\ store' = store \cup {lastKey'}
       /\ lastRet' \in {"hit", "miss"}
       /\ Cardinality(store') >= Cardinality(store)
       /\ Cardinality(store) = capacity => Cardinality(store') = capacity]_vars
C11_Witness ==
    /\ lastRet = "miss" /\ Len(victims) = 1 /\ victims[1] \notin store
    /\ capacity > 1 /\ Cardinality(store) = capacity
    /\ \E k \in store \ {lastKey} : freq_map[k] > 1

\* the least meta priority over the resident keys (Store not empty)
MinResidentPriority ==
    CHOOSE p \in {meta[r].priority : r \in store} :
        \A r \in store : p <= meta[r].priority

\* C12: in S3GDFS, with the Store full, a miss is rejected exactly when its
\* priority clock + 1 + pos_bias is strictly below the least meta priority
\* of the resident keys (equality is admitted); with the Store not full every
\* miss is admitted.
C12_GateRejectsBelowMinimum ==
    [][(policy = "S3GDFS" /\ lastRet' = "miss") =>
           /\ store \subseteq DOMAIN meta
           /\ IF Cardinality(store) >= capacity
              THEN /\ lastGate' \in {"rejected", "admitted"}
                   /\ (lastGate' = "rejected") <=> (lastPrio' < MinResidentPriority)
              ELSE lastGate' = "free"
           /\ lastGate' = "rejected" => lastKey' \notin store']_vars

\* the priority a victim of the step had when it was evicted: its meta
\* priority at entry, or the priority just computed for the accessed key
VictimPriority(v) == IF v = lastKey' THEN lastPrio' ELSE meta[v].priority
MaxOfSet(s) == CHOOSE m \in s : \A x \in s : x <= m

\* C13: in S3GDFS the clock never decreases; a step without a real eviction
\* (hit, rejected miss, promotion, rotation) leaves it unchanged, and a step
\* with real evictions sets it to the maximum of the old clock and the
\* victims' priorities.  With clock = 0 initially, the clock is always the
\* maximum of 0 and the priorities of all keys evicted so far.
C13_ClockMonotone ==
    [][policy = "S3GDFS" =>
          /\ clock' >= clock
          /\ (lastRet' = "hit" \/ lastGate' = "rejected") =>
                 victims' = <<>> /\ clock' = clock
          /\ victims' = <<>> => clock' = clock
          /\ victims' # <<>> =>
                 clock' = MaxOfSet({clock} \cup
                              {VictimPriority(victims'[i]) : i \in 1..Len(victims')})]_vars
C13_Witness ==
    /\ policy = "S3GDFS" /\ victims # <<>>
    /\ clock >= 2 * PrioScale
    /\ \E k \in Keys : rot[k] > 0

\* C14: in S3GDFS meta has an entry exactly for the resident keys, and the
\* heap holds for each resident key the entry with its current priority and
\* version; dropping stale heap tops never removes such an entry.
C14_LiveHeapEntries ==
    policy = "S3GDFS" =>
        /\ DOMAIN meta = store
        /\ \A k \in store : <<meta[k].priority, meta[k].version, k>> \in heap
C14_Witness ==
    /\ policy = "S3GDFS" /\ lastGate = "rejected"
    /\ \E k \in store : meta[k].version > 0
    /\ Cardinality(heap) > Cardinality(store)

\* C15: in S3GDFS a miss rejected by the admission gate returns False and
\* leaves S, M, the ghost, freq, meta, the clock and the Store as they were;
\* the heap loses at most entries that were stale at entry.
C15_RejectedMissFrame ==
    [][lastGate' = "rejected" =>
          /\ lastRet' = "miss" /\ status' = "ok"
          /\ UNCHANGED <<S, M, ghost, freq, meta, clock, store>>
          /\ victims' = <<>> /\ rot' = ZeroRot
          /\ heap' \subseteq heap
          /\ \A e \in heap \ heap' :
                 ~HeapEntryValid([meta |-> meta, store |-> store], e)]_vars
C15_Witness ==
    /\ lastGate = "rejected" /\ lastRet = "miss" /\ lastKey \notin store
    /\ lastKey \in Elems(ghost)
    /\ S # <<>> /\ M # <<>>

\* C16: S3GDFS.access never raises the Store's capacity error: an admitted
\* miss on a full Store evicts a resident key before the new key is added,
\* and the Store holds at most capacity keys after every access.
C16_GDFSWithinCapacity ==
    [][policy = "S3GDFS" =>
          /\ status' = "ok"
          /\ Cardinality(store') <= capacity
          /\ lastGate' = "admitted" =>
                 /\ Cardinality(store) = capacity
                 /\ victims' # <<>>
                 /\ victims'[1] \in store]_vars
C16_Witness ==
    /\ policy = "S3GDFS" /\ lastGate = "admitted" /\ victims # <<>>
    /\ capacity > 1 /\ Cardinality(store) = capacity
    /\ M # <<>> /\ lastKey \in store


\* the number of run boundaries behind position i: the index, counted from the
\* end of the list, of the maximal run of consecutive ids that holds seq[i]
RunsBehind(seq, i) ==
    Cardinality({p \in (i + 1)..Len(seq) : seq[p] # seq[p - 1] + 1})

NoRepeatedId(seq) == \A i, j \in 1..Len(seq) : seq[i] = seq[j] => i = j

\* C17: for a request list without repeated ids, a miss of S3FIFO_Attn gets
\* from _get_init_offset the index from the end of the maximal run of
\* consecutive ids that holds the key, capped at 3; 0 when the key is not in
\* the list or the list is empty or absent.
C17_InitOffsetIsRunIndex ==
    [][(policy = "S3FIFO_Attn" /\ lastRet' = "miss" /\ NoRepeatedId(lastReq')) =>
          /\ lastKey' \notin Elems(lastReq') => lastInit' = 0
          /\ \A i \in 1..Len(lastReq') :
                lastReq'[i] = lastKey' =>
                    lastInit' = Min2(RunsBehind(lastReq', i), FreqCap)]_vars

\* C18: when a miss of LFU_PRO finds the Store full, the key it evicts is a
\* resident of least frequency; if min_set holds a key whose recorded type
\* differs from the type of the request, the evicted key is such a key, and a
\* key of the request's type is evicted only when every member of min_set has
\* that type.
C18_EvictsOtherTypeFirst ==
    [][(policy = "LFU_PRO" /\ lastRet' = "miss" /\ Cardinality(store) >= capacity) =>
          /\ Len(victims') = 1
          /\ LET v == victims'[1]
                 request_type == type_map'[lastKey']
             IN /\ v \in store /\ v \in min_set /\ v \notin store'
                /\ \A k \in store : freq_map[v] <= freq_map[k]
                /\ (\E k \in min_set : type_map[k] # request_type)
                       => type_map[v] # request_type
                /\ type_map[v] = request_type
                       => \A k \in min_set : type_map[k] = request_type]_vars

\* a full Store with two keys of least frequency lost one of them to a miss,
\* and the one that stayed has the type of the request
C18_Witness ==
    /\ policy = "LFU_PRO" /\ lastRet = "miss" /\ Len(victims) = 1
    /\ capacity > 1 /\ Cardinality(store) = capacity
    /\ \E k \in store \ {lastKey} :
          /\ freq_map[k] = 1
          /\ type_map[k] = type_map[lastKey]

\* what access(key, list) yields from the current state when no list shares
\* its id with an earlier one: the result, the resident set, S and M
Observed(r) == <<r.ret, r.store, r.S, r.M>>
ReferenceOutcome(key, req) ==
    CASE policy = "S3FIFO" -> Observed(S3FIFO_access(S3FIFO_state, key))
      [] policy = "S3FIFO_Attn" -> Observed(Attn_access(Attn_state, key, req, FALSE))
      [] policy = "S3GDFS" -> Observed(GDFS_access(GDFS_state, key, req))

\* C19: in S3FIFO, S3FIFO_Attn and S3GDFS the capacity, the parameters and the
\* trace determine the run: every access leaves the hit/miss result, the
\* resident set and the order of S and M that any other run of the same trace
\* gets from the same point.
C19_Deterministic ==
    [][(policy = "S3FIFO" \/ policy = "S3FIFO_Attn" \/ policy = "S3GDFS") =>
          <<lastRet', store', S', M'>> = ReferenceOutcome(lastKey', lastReq')]_vars

\* C20: a KVCacheStore cannot be built with capacity <= 0; delete of an absent
\* key changes nothing and raises nothing; add of a new key to a full Store
\* raises and leaves the resident set as it was, within capacity; add of a
\* resident key to a full Store does not raise.
C20_StoreContract ==
    [][policy = "KVCacheStore" =>
          /\ capacity <= 0 => status = "value_error"
          /\ (lastOp' = "delete" /\ lastKey' \notin store) =>
                 store' = store /\ status' = "ok"
          /\ (lastOp' = "add" /\ Cardinality(store) = capacity) =>
                 IF lastKey' \in store
                 THEN store' = store /\ status' = "ok"
                 ELSE /\ status' = "capacity_error"
                      /\ store' = store
                      /\ Cardinality(store') <= capacity]_vars

\* C21: in S3FIFO a missed key that is in the ghost queue when access is
\* called is at the head of M, not in S and not in the ghost when the call
\* returns; a missed key that is not in the ghost is at the head of S.
C21_GhostHitGoesToM ==
    [][(policy = "S3FIFO" /\ lastRet' = "miss") =>
          /\ (lastKey' \in G_set /\ lastKey' \in Elems(G)) =>
                 /\ M' # <<>> /\ M'[1] = lastKey'
                 /\ lastKey' \notin Elems(S')
                 /\ lastKey' \notin G_set' /\ lastKey' \notin Elems(G')
          /\ (lastKey' \notin G_set /\ lastKey' \notin Elems(G)) =>
                 /\ S' # <<>> /\ S'[1] = lastKey'
                 /\ lastKey' \notin Elems(M')]_vars

\* q with the keys of old dropped from its head side: what S keeps of its
\* former content
IsHeadPartOf(q, old) == \E n \in 0..Len(old) : q = SubSeq(old, 1, n)

\* C22: in S3FIFO an access that returns moves a key from S to M only if the
\* key was in S with freq > 1; every key that leaves S with freq <= 1 is
\* really evicted (out of the Store and a member of the ghost, in G_set as
\* in the deque G); S loses keys from its tail only and gains only the
\* missed key at its head; no key of M is in S afterwards.
C22_PromotionNeedsTwoHits ==
    [][(policy = "S3FIFO" /\ lastRet' \in {"hit", "miss"}) =>
          /\ \A k \in Elems(promoted') : k \in Elems(S) /\ freq[k] > 1
          /\ \A k \in Elems(S) \cap Elems(M') : k \in Elems(promoted')
          /\ (Elems(M') \ Elems(M)) \subseteq Elems(promoted') \cup {lastKey'}
          /\ \A k \in Elems(S) \ Elems(S') :
                freq[k] <= 1 =>
                    /\ k \in Elems(victims') /\ k \notin Elems(promoted')
                    /\ k \notin store'
                    /\ k \in G_set' /\ k \in Elems(G')
          /\ \/ IsHeadPartOf(S', S)
             \/ /\ lastRet' = "miss" /\ S' # <<>> /\ S'[1] = lastKey'
                /\ IsHeadPartOf(SubSeq(S', 2, Len(S')), S)
          /\ Elems(M) \cap Elems(S') = {}]_vars

\* what _evictM owes for one call that found b and left a, with victim M[i]
\* after c full turns of M: the keys behind the victim (nearer the tail) were
\* rotated c + 1 times, the others c times, each rotation took 1 from the
\* key's freq, the victim's freq had come down to 0, and the victim left M,
\* the Store and freq and is in the ghost
EvictMOutcome(b, a, i, c) ==
    LET v == b.M[i]
        behind == SubSeq(b.M, i + 1, Len(b.M))
        ahead == SubSeq(b.M, 1, i - 1)
    IN /\ Get(b.freq, v, 0) = c
       /\ a.victims = Append(b.victims, v)
       /\ a.M = behind \o ahead
       /\ a.store = b.store \ {v}
       /\ v \notin DOMAIN a.freq
       /\ v \in a.G_set /\ v \in Elems(a.G)
       /\ a.rot[v] = b.rot[v] + c
       /\ \A k \in Elems(behind) :
             /\ a.rot[k] = b.rot[k] + c + 1
             /\ Get(a.freq, k, 0) = Get(b.freq, k, 0) - (c + 1)
       /\ \A k \in Elems(ahead) :
             /\ a.rot[k] = b.rot[k] + c
             /\ Get(a.freq, k, 0) = Get(b.freq, k, 0) - c
       /\ \A k \in Elems(a.M) : Get(a.freq, k, 0) >= 0

\* C23: every call of S3FIFO._evictM on a non-empty M ends with exactly one
\* real eviction: the victim is the first key that reaches the tail of M
\* with freq 0, every key passed over was rotated to the head and lost 1 of
\* its freq per rotation, and the victim is out of M, Store and freq and in
\* the ghost.
C23_EvictMOneRealEviction ==
    policy = "S3FIFO" =>
        \A n \in 1..Len(evictM_calls) :
            LET b == evictM_calls[n].before
                a == evictM_calls[n].after
            IN \E i \in 1..Len(b.M), c \in 0..FreqCap : EvictMOutcome(b, a, i, c)

\* C24: when S3GDFS admits a miss on a full Store, _ensure_space_one_eviction
\* lowers Store.size() by exactly one, whatever it promotes and rebalances.
C24_MakeSpaceEvictsOne ==
    [][(policy = "S3GDFS" /\ lastGate' = "admitted") =>
          /\ Cardinality(store) >= capacity
          /\ lastFreed' = 1]_vars

\* C25: on an S3FIFO_Attn miss, a key whose initial offset is > 0 or which is
\* in the Ghost when access is called is put into M; only a key with initial
\* offset 0 that is not in the Ghost is put into S.
C25_OffsetOrGhostGoesToM ==
    [][(policy = "S3FIFO_Attn" /\ lastRet' = "miss") =>
          /\ (lastInit' > 0 \/ GhostFIFO_contains(ghost, lastKey')) =>
                 /\ lastKey' \in Elems(M')
                 /\ lastKey' \notin Elems(S')
          /\ (lastInit' = 0 /\ ~GhostFIFO_contains(ghost, lastKey')) =>
                 /\ S' # <<>> /\ S'[1] = lastKey'
                 /\ lastKey' \notin Elems(M')]_vars

\* C26: in S3FIFO_Attn a key popped from the tail of S with offset > 0, one
\* that was only seeded with a positive initial offset and never hit included,
\* is moved to M and not really evicted by that step (it stays in M, or leaves
\* M later through _evictM after offset rotations); a key popped with offset 0
\* is really evicted to the ghost.
C26_PromotionNeedsPositiveOffset ==
    [][(policy = "S3FIFO_Attn" /\ lastRet' \in {"hit", "miss"}) =>
          /\ \A k \in Elems(promoted') : k \in Elems(S) /\ Get(offset, k, 0) > 0
          /\ \A k \in Elems(S) \ Elems(S') :
                /\ Get(offset, k, 0) > 0 =>
                      /\ k \in Elems(promoted')
                      /\ \/ /\ k \in Elems(M') /\ k \in store'
                            /\ k \notin Elems(victims')
                            /\ Get(offset', k, 0) = offset[k] - rot'[k]
                         \/ /\ k \in Elems(victims') /\ k \notin store'
                            /\ rot'[k] = offset[k]
                /\ Get(offset, k, 0) = 0 =>
                      /\ k \notin Elems(promoted') /\ k \notin Elems(M')
                      /\ k \in Elems(victims') /\ k \notin store'
                      /\ rot'[k] = 0
                      /\ k \in Elems(ghost')
          /\ \A k \in seeded : k \in Elems(S) \ Elems(S') => k \in Elems(promoted')]_vars

C26_Witness ==
    /\ policy = "S3FIFO_Attn" /\ lastRet = "miss"
    /\ promoted # <<>> /\ victims # <<>>
    /\ promoted[1] \in seeded
    /\ promoted[1] \in Elems(M) /\ promoted[1] \in store
    /\ Get(offset, promoted[1], 0) > 0
    /\ victims[1] \in Elems(ghost) /\ victims[1] \notin store

\* C27: in S3FIFO with s_capacity = 0, after every access S is empty and every
\* resident key is in M.
C27_SmallQueueUnused ==
    (policy = "S3FIFO" /\ s_capacity = 0 /\ lastRet \in {"hit", "miss"}) =>
        /\ S = <<>>
        /\ store \subseteq Elems(M)

\* C28: in S3FIFO, S3FIFO_Attn and S3GDFS, after every access M holds at most
\* m_capacity (main_target) keys.
C28_MainWithinTarget ==
    (/\ policy = "S3FIFO" \/ policy = "S3FIFO_Attn" \/ policy = "S3GDFS"
     /\ status = "ok") =>
        Len(M) <= m_capacity

\* a ghost-hit key went on a full M and _rebalance_M_if_over evicted from M
C28_Witness ==
    /\ policy = "S3FIFO" /\ status = "ok" /\ lastRet = "miss"
    /\ evictM_calls # <<>>
    /\ Len(evictM_calls[1].before.M) = m_capacity + 1
    /\ Len(M) = m_capacity

\* C29: an S3FIFO hit on key k changes freq[k] and nothing else: S, M, the
\* ghost queue with its set, the Store and the other counters are the same
\* before and after the call.
C29_HitChangesOnlyFreq ==
    [][(policy = "S3FIFO" /\ lastRet' = "hit") =>
          /\ S' = S /\ M' = M
          /\ G' = G /\ G_set' = G_set
          /\ store' = store
          /\ DOMAIN freq' = DOMAIN freq \cup {lastKey'}
          /\ \A k \in DOMAIN freq \ {lastKey'} : freq'[k] = freq[k]
          /\ freq'[lastKey'] = Min2(Get(freq, lastKey', 0) + 1, FreqCap)]_vars

\* a hit on a key that is not at the head of its queue, with a ghost entry
C29_Witness ==
    /\ policy = "S3FIFO" /\ lastRet = "hit"
    /\ G # <<>>
    /\ \/ Len(S) > 1 /\ lastKey \in Elems(S) /\ S[1] # lastKey
       \/ Len(M) > 1 /\ lastKey \in Elems(M) /\ M[1] # lastKey
    /\ Get(freq, lastKey, 0) >= 1

\* C30: in LFU, for every resident key k, freq_map[k] is the number of
\* access(k) calls since k was last admitted, the admitting miss counted as 1;
\* the count has no cap and a key evicted and admitted again starts at 1.
C30_CountIsAccessesSinceAdmission ==
    (policy = "LFU" /\ status = "ok") =>
        /\ DOMAIN calls = store
        /\ \A k \in store : k \in DOMAIN freq_map /\ freq_map[k] = calls[k]

\* a key counted beyond the cap of the S3FIFO counters, next to a key admitted
\* by a miss that evicted another
C30_Witness ==
    /\ policy = "LFU" /\ status = "ok" /\ lastRet = "miss"
    /\ victims # <<>> /\ victims[1] \notin store
    /\ lastKey \in store /\ freq_map[lastKey] = 1
    /\ \E k \in store : freq_map[k] > FreqCap /\ calls[k] = freq_map[k]

\* C31: in S3FIFO, after every access the ghost deque G holds no key twice
\* and a key is in G if and only if it is in G_set.
C31_GhostDequeMatchesSet ==
    (policy = "S3FIFO" /\ status = "ok") =>
        /\ NoDup(G)
        /\ Elems(G) = G_set
====
